---- MODULE Spec2Model ----
(***************************************************************************)
(* Model of the JSON structural matcher of bdd-api-auto                    *)
(* (src/utils/schema_validation.py).                                       *)
(*                                                                         *)
(* JSON values (observed values and schema nodes alike) are tagged         *)
(* records:                                                                *)
(*   [k |-> "null"]                       Python None                      *)
(*   [k |-> "bool", b |-> BOOLEAN]        Python bool                      *)
(*   [k |-> "num",  n |-> Int]            Python int                       *)
(*   [k |-> "str",  s |-> <<chars>>]      Python str, one character per    *)
(*                                        element, so that startswith and  *)
(*                                        slicing are computed, not assumed*)
(*   [k |-> "arr",  a |-> <<values>>]     Python list                      *)
(*   [k |-> "obj",  o |-> <<members>>]    Python dict, members in insertion*)
(*                                        order, each [key, val]           *)
(* Floats are outside the modelled universe.                               *)
(***************************************************************************)
EXTENDS Integers, Sequences, FiniteSets, TLC

VARIABLES response_data, schema, errors, result, pc

\* several calls of validate_json_schema in flight: the frame of each
\* caller, and the record of the calls that have ended
VARIABLES frames, completed

\* the schema loader: the files on disk (path -> document), the arguments
\* and locals of get_schema_response, its position and the exception raised
VARIABLES files, rsp_content, country, item_nested, file_path, expected_json,
          lpc, lexc

\* one HTTPClient: the headers of its session, its token, its rate limiter,
\* the clock it reads, and the request it sent last
VARIABLES session_headers, oauth_token, rate_limit_delay, last_request_time, now,
          sent
\* history of the client: which call wrote the Authorization entry last, and
\* the last passage through the rate limiter
VARIABLES auth_writer, gate
\* the response hooks of the client in registration order, the hooks run
\* during the last request, and how that request ended (with the last status
\* the server answered and the hooks registered at the time)
VARIABLES response_hooks, hook_log, reply
\* ClientFactory: the class-level cache, the clients closed so far, the
\* number of clients constructed, and the value the last call returned
VARIABLES _clients, closed, constructed, returned
\* history of the factory: the clients constructed for each name since the
\* last close_all, in order
VARIABLES made

\* a behave run: the hooks run so far, the state of the scenario under way,
\* context.response, the three variable stores, the result of the last
\* lookup and the response the last status step looked at
VARIABLES run_pc, feature_no, scenario_no, scenario_status, context_response,
          store, feature_store, scenario_store, looked, checked
\* history of the run: the stores as the set steps and the starts of
\* features and scenarios should have left them
VARIABLES expected

matcherVars == <<response_data, schema, errors, result, pc>>
callVars == <<frames, completed>>
loaderVars == <<files, rsp_content, country, item_nested, file_path, expected_json,
                lpc, lexc>>
clientVars == <<session_headers, oauth_token, rate_limit_delay, last_request_time, now,
                sent, auth_writer, gate, response_hooks, hook_log, reply>>
factoryVars == <<_clients, closed, constructed, returned, made>>
runVars == <<run_pc, feature_no, scenario_no, scenario_status, context_response,
             store, feature_store, scenario_store, looked, checked, expected>>
vars == <<matcherVars, callVars, loaderVars, clientVars, factoryVars, runVars>>

(***************************************************************************)
(* Bounds of the explored universe.                                        *)
(***************************************************************************)
MaxLen == 3
MaxNum == 1
\* callers that run the matcher side by side, and calls each of them makes
NCallers == 2
MaxRuns == 2
\* keys that follow the file name in a schema reference
MaxSegments == 2
\* headers in one set_headers or per-request dict
MaxHeaders == 2
\* the largest rate_limit_delay, the ticks the clock may advance, and the
\* ticks a sleep may overrun
MaxDelay == 2
MaxTime == 5
MaxOversleep == 1
\* clients constructed in one run of the factory
MaxClients == 3
\* features in a run and scenarios in a feature
MaxFeatures == 2
MaxScenarios == 2
\* retries the adapter makes (ClientConfig.max_retries) and response hooks
\* registered on one client
MaxRetries == 1
MaxHooks == 2

(***************************************************************************)
(* Value constructors.                                                     *)
(***************************************************************************)
JNull == [k |-> "null"]
JBool(x) == [k |-> "bool", b |-> x]
JNum(x) == [k |-> "num", n |-> x]
JStr(cs) == [k |-> "str", s |-> cs]
JArr(xs) == [k |-> "arr", a |-> xs]
JObj(ms) == [k |-> "obj", o |-> ms]
Member(key, v) == [key |-> key, val |-> v]

(***************************************************************************)
(* Python built-ins used by the matcher.                                   *)
(***************************************************************************)
IsNone(v) == v.k = "null"
IsStr(v) == v.k = "str"
IsDict(v) == v.k = "obj"
IsList(v) == v.k = "arr"
\* isinstance(v, bool)
IsBoolInstance(v) == v.k = "bool"
\* isinstance(v, (int, float)): bool is a subclass of int
IsIntFloatInstance(v) == v.k \in {"num", "bool"}

\* str.startswith
startswith(cs, prefix) ==
    /\ Len(cs) >= Len(prefix)
    /\ SubSeq(cs, 1, Len(prefix)) = prefix

\* cs[n:]
SliceFrom(cs, n) == SubSeq(cs, n + 1, Len(cs))

\* type(v).__name__
TypeName(v) ==
    CASE v.k = "null" -> "NoneType"
      [] v.k = "bool" -> "bool"
      [] v.k = "num" -> "int"
      [] v.k = "str" -> "str"
      [] v.k = "arr" -> "list"
      [] v.k = "obj" -> "dict"

\* the text of a character sequence
RECURSIVE Text(_)
Text(cs) == IF cs = <<>> THEN "" ELSE Head(cs) \o Text(Tail(cs))

\* str(v) and repr(v) as the f-strings render them
RECURSIVE PyFormat(_, _)
RECURSIVE PyFormatItems(_, _)
PyFormat(v, quoted) ==
    CASE v.k = "null" -> "None"
      [] v.k = "bool" -> IF v.b THEN "True" ELSE "False"
      [] v.k = "num" -> ToString(v.n)
      [] v.k = "str" -> IF quoted THEN "'" \o Text(v.s) \o "'" ELSE Text(v.s)
      [] v.k = "arr" -> "[" \o PyFormatItems(v.a, FALSE) \o "]"
      [] v.k = "obj" -> "{" \o PyFormatItems(v.o, TRUE) \o "}"
PyFormatItems(xs, isDict) ==
    IF xs = <<>> THEN ""
    ELSE LET one == IF isDict
                    THEN "'" \o Head(xs).key \o "': " \o PyFormat(Head(xs).val, TRUE)
                    ELSE PyFormat(Head(xs), TRUE)
         IN  IF Len(xs) = 1 THEN one
             ELSE one \o ", " \o PyFormatItems(Tail(xs), isDict)
PyStr(v) == PyFormat(v, FALSE)

\* dict.get(key): the value of the member named key, None when absent
RECURSIVE DictGet(_, _)
DictGet(ms, key) ==
    IF ms = <<>> THEN JNull
    ELSE IF Head(ms).key = key THEN Head(ms).val
    ELSE DictGet(Tail(ms), key)

DictKeys(ms) == {ms[i].key : i \in DOMAIN ms}

\* Python ==: bool and int compare by numeric value, containers by content
NumOf(v) == IF v.k = "bool" THEN (IF v.b THEN 1 ELSE 0) ELSE v.n
RECURSIVE PyEq(_, _)
PyEq(x, y) ==
    CASE x.k \in {"bool", "num"} /\ y.k \in {"bool", "num"} -> NumOf(x) = NumOf(y)
      [] x.k = "null" /\ y.k = "null" -> TRUE
      [] x.k = "str" /\ y.k = "str" -> x.s = y.s
      [] x.k = "arr" /\ y.k = "arr" ->
            /\ Len(x.a) = Len(y.a)
            /\ \A i \in DOMAIN x.a : PyEq(x.a[i], y.a[i])
      [] x.k = "obj" /\ y.k = "obj" ->
            /\ DictKeys(x.o) = DictKeys(y.o)
            /\ \A key \in DictKeys(x.o) : PyEq(DictGet(x.o, key), DictGet(y.o, key))
      [] OTHER -> FALSE

\* re.match(pattern, text) for patterns made of literal characters,
\* ".", "^" and "$" (no quantifier, group or class): a match anchored at
\* the start of text that need not reach its end.
RECURSIVE MatchAt(_, _, _)
MatchAt(pattern, text, pos) ==
    IF pattern = <<>> THEN TRUE
    ELSE LET c == Head(pattern) IN
         CASE c = "^" -> pos = 1 /\ MatchAt(Tail(pattern), text, pos)
           [] c = "$" -> pos = Len(text) + 1 /\ MatchAt(Tail(pattern), text, pos)
           [] c = "." -> pos <= Len(text) /\ MatchAt(Tail(pattern), text, pos + 1)
           [] OTHER -> /\ pos <= Len(text)
                       /\ text[pos] = c
                       /\ MatchAt(Tail(pattern), text, pos + 1)
\* re.fullmatch in place of re.match: the match must reach the end of text
re_fullmatch(pattern, text) == MatchAt(pattern \o <<"$">>, text, 1)

re_match(pattern, text) == MatchAt(pattern, text, 1)

(***************************************************************************)
(* Sentinel tokens (schema_validation.py:7-19).                            *)
(***************************************************************************)
OPTIONAL_FIELD_PREFIX == <<"#", "#">>
OPTIONAL_LIST_FIELD_PREFIX == <<"#", "#", "[", "]">>
PRESENT_FIELD == <<"#", "p", "r", "e", "s", "e", "n", "t">>
IGNORE_FIELD == <<"#", "i", "g", "n", "o", "r", "e">>
NULL_FIELD == <<"#", "n", "u", "l", "l">>
EMPTY_LIST_FIELD == <<"#", "[", "]">>
STRING_FIELD == <<"#", "s", "t", "r", "i", "n", "g">>
NUMBER_FIELD == <<"#", "n", "u", "m", "b", "e", "r">>
BOOLEAN_FIELD == <<"#", "b", "o", "o", "l", "e", "a", "n">>
OBJECT_FIELD == <<"#", "o", "b", "j", "e", "c", "t">>
ARRAY_FIELD == <<"#", "a", "r", "r", "a", "y">>
NOTNULL_FIELD == <<"#", "n", "o", "t", "n", "u", "l", "l">>
REGEX_FIELD == <<"#", "r", "e", "g", "e", "x", " ">>

(***************************************************************************)
(* The matcher.  The closure variable errors and a raised exception are    *)
(* threaded through the walk as st = [errors, raised]; raised is "none"    *)
(* while no exception is propagating.                                      *)
(***************************************************************************)
NoError == [errors |-> <<>>, raised |-> "none"]
\* errors.append(msg)
Record(st, msg) == [st EXCEPT !.errors = Append(@, msg)]
Raise(st, exc) == [st EXCEPT !.raised = exc]

\* the optional prefix taken for the optional-list prefix
is_optional_ListPrefix(schema_value) ==
    IsStr(schema_value) /\ startswith(schema_value.s, OPTIONAL_LIST_FIELD_PREFIX)

\* lines 28-30: the optional prefix
is_optional(schema_value) ==
    IsStr(schema_value) /\ startswith(schema_value.s, OPTIONAL_FIELD_PREFIX)
StripOptional(schema_value) ==
    IF is_optional(schema_value)
    THEN JStr(SliceFrom(schema_value.s, Len(OPTIONAL_FIELD_PREFIX)))
    ELSE schema_value

\* line 43: the conjunction is evaluated left to right; its last conjunct
\* calls schema_value.startswith, which is reached only for a schema value
\* that is not a str, list or dict, and such a value has no startswith.
MissingValueCheck(response_value, schema_value, optional) ==
    IF /\ ~optional
       /\ IsNone(response_value)
       /\ schema_value # JStr(NULL_FIELD)
       /\ ~(IsList(schema_value) \/ IsDict(schema_value))
       /\ ~IsStr(schema_value)
    THEN (IF IsStr(schema_value)
          THEN (IF startswith(schema_value.s, EMPTY_LIST_FIELD) THEN "missing" ELSE "continue")
          ELSE "AttributeError")
    ELSE "continue"

\* line 72: isinstance(response_value, (int, float))
IsNumber(response_value) == IsIntFloatInstance(response_value)

\* lines 96 and 128: response_value != schema_value
Differs(response_value, schema_value) == ~PyEq(response_value, schema_value)

ExpectedKindMsg(field_path, kind, response_value) ==
    "Validation Error at '" \o field_path \o "': expected " \o kind
        \o ", got " \o TypeName(response_value) \o "."
ExpectedValueMsg(field_path, schema_value, response_value) ==
    "Validation Error at '" \o field_path \o "': expected value '"
        \o PyStr(schema_value) \o "', got '" \o PyStr(response_value) \o "'."

\* the empty-array token satisfied by an array of any length
ValidateEmptyList_AnyLength(response_value, field_path, st) ==
    IF ~IsList(response_value)
    THEN Record(st, "Validation Error at '" \o field_path
                    \o "' expected an array, got " \o TypeName(response_value) \o ".")
    ELSE st

\* lines 48-51: a token starting with "#[]"; the statements on lines 53-66
\* follow the unconditional return of line 51 and are never executed.
ValidateEmptyList(response_value, field_path, st) ==
    IF ~IsList(response_value) \/ Len(response_value.a) # 0
    THEN Record(st, "Validation Error at '" \o field_path
                    \o "' expected an array, got " \o TypeName(response_value) \o ".")
    ELSE st

\* the null-ness tokens with the test of #null inverted
ValidateNullness_Inverted(response_value, sv, field_path, st) ==
    IF sv = NOTNULL_FIELD
    THEN (IF IsNone(response_value)
          THEN Record(st, "Validation Error at '" \o field_path
                          \o "': expected not null value.")
          ELSE st)
    ELSE (IF IsNone(response_value)
          THEN Record(st, "Validation Error at '" \o field_path
                          \o "': expected null value. got " \o TypeName(response_value)
                          \o " with value '" \o PyStr(response_value) \o "'.")
          ELSE st)

\* lines 83-88: #notnull and #null
ValidateNullness(response_value, sv, field_path, st) ==
    IF sv = NOTNULL_FIELD
    THEN (IF IsNone(response_value)
          THEN Record(st, "Validation Error at '" \o field_path
                          \o "': expected not null value.")
          ELSE st)
    ELSE (IF ~IsNone(response_value)
          THEN Record(st, "Validation Error at '" \o field_path
                          \o "': expected null value. got " \o TypeName(response_value)
                          \o " with value '" \o PyStr(response_value) \o "'.")
          ELSE st)

\* lines 89-94: the regex token
ValidateRegex(response_value, sv, field_path, st) ==
    LET pattern == SliceFrom(sv, Len(REGEX_FIELD)) IN
    IF ~IsStr(response_value)
    THEN Record(st, "Validation Error at '" \o field_path
                    \o "': expected string to match regex '" \o Text(pattern)
                    \o "', got " \o TypeName(response_value) \o ".")
    ELSE IF ~re_match(pattern, response_value.s)
    THEN Record(st, "Validation Error at '" \o field_path \o "': value '"
                    \o Text(response_value.s) \o "' does not match regex '"
                    \o Text(pattern) \o "'.")
    ELSE st

\* lines 47-97: schema_value is a str
ValidateString(response_value, schema_value, field_path, st) ==
    LET sv == schema_value.s IN
    IF startswith(sv, EMPTY_LIST_FIELD)
    THEN ValidateEmptyList(response_value, field_path, st)
    ELSE IF sv = STRING_FIELD
    THEN (IF ~IsStr(response_value)
          THEN Record(st, ExpectedKindMsg(field_path, "string", response_value))
          ELSE st)
    ELSE IF sv = NUMBER_FIELD
    THEN (IF ~IsNumber(response_value)
          THEN Record(st, ExpectedKindMsg(field_path, "number", response_value))
          ELSE st)
    ELSE IF sv = BOOLEAN_FIELD
    THEN (IF ~IsBoolInstance(response_value)
          THEN Record(st, ExpectedKindMsg(field_path, "boolean", response_value))
          ELSE st)
    ELSE IF sv = OBJECT_FIELD
    THEN (IF ~IsDict(response_value)
          THEN Record(st, ExpectedKindMsg(field_path, "object", response_value))
          ELSE st)
    ELSE IF sv = ARRAY_FIELD
    THEN (IF ~IsList(response_value)
          THEN Record(st, ExpectedKindMsg(field_path, "array", response_value))
          ELSE st)
    ELSE IF sv \in {NOTNULL_FIELD, NULL_FIELD}
    THEN ValidateNullness(response_value, sv, field_path, st)
    ELSE IF startswith(sv, REGEX_FIELD)
    THEN ValidateRegex(response_value, sv, field_path, st)
    ELSE IF Differs(response_value, schema_value)
    THEN Record(st, ExpectedValueMsg(field_path, schema_value, response_value))
    ELSE st

\* lines 127-129: schema_value is a number, a boolean or None
ValidateLiteral(response_value, schema_value, field_path, st) ==
    IF Differs(response_value, schema_value)
    THEN Record(st, ExpectedValueMsg(field_path, schema_value, response_value))
    ELSE st

\* f"{field_path}.{key}" and f"{field_path}[{index}]"
MemberPath(field_path, key) == field_path \o "." \o key
ItemPath(field_path, index) == field_path \o "[" \o ToString(index) \o "]"

\* line 111: the homogeneous-array shorthand
IsItemSchema(schema_value) ==
    /\ Len(schema_value.a) = 1
    /\ (IsDict(schema_value.a[1]) \/ IsList(schema_value.a[1]) \/ IsStr(schema_value.a[1]))

RECURSIVE _validate_field(_, _, _, _)

\* lines 108-109: for key, val in schema_value.items(), from member i on
RECURSIVE ValidateMembers(_, _, _, _, _)
ValidateMembers(response_value, members, i, field_path, st) ==
    IF i > Len(members) \/ st.raised # "none" THEN st
    ELSE ValidateMembers(response_value, members, i + 1, field_path,
            _validate_field(DictGet(response_value.o, members[i].key), members[i].val,
                            MemberPath(field_path, members[i].key), st))

\* lines 116-117: for index, item in enumerate(response_value), from item i on
RECURSIVE ValidateItems(_, _, _, _, _)
ValidateItems(items, item_schema, i, field_path, st) ==
    IF i > Len(items) \/ st.raised # "none" THEN st
    ELSE ValidateItems(items, item_schema, i + 1, field_path,
            _validate_field(items[i], item_schema, ItemPath(field_path, i - 1), st))

\* lines 125-126: for index, (resp_item, schema_item) in enumerate(zip(...))
RECURSIVE ValidateZip(_, _, _, _, _)
ValidateZip(items, schemas, i, field_path, st) ==
    IF i > Len(items) \/ i > Len(schemas) \/ st.raised # "none" THEN st
    ELSE ValidateZip(items, schemas, i + 1, field_path,
            _validate_field(items[i], schemas[i], ItemPath(field_path, i - 1), st))

\* the dict rule with the extra keys of the observed object rejected
ValidateDict_NoExtraKeys(response_value, schema_value, field_path, st) ==
    IF ~IsDict(response_value)
    THEN Record(st, ExpectedKindMsg(field_path, "object", response_value))
    ELSE IF DictKeys(response_value.o) \ DictKeys(schema_value.o) # {}
    THEN ValidateMembers(response_value, schema_value.o, 1, field_path,
            Record(st, "Validation Error at '" \o field_path \o "': unexpected keys."))
    ELSE ValidateMembers(response_value, schema_value.o, 1, field_path, st)

\* lines 98-109: schema_value is a dict
ValidateDict(response_value, schema_value, field_path, st) ==
    IF ~IsDict(response_value)
    THEN Record(st, ExpectedKindMsg(field_path, "object", response_value))
    ELSE ValidateMembers(response_value, schema_value.o, 1, field_path, st)

\* the positional rule without its length check: zip stops at the shorter
ValidatePositional_NoLengthCheck(response_value, schema_value, field_path, st) ==
    IF ~IsList(response_value)
    THEN Record(st, ExpectedKindMsg(field_path, "array", response_value))
    ELSE ValidateZip(response_value.a, schema_value.a, 1, field_path, st)

\* lines 118-126: the positional array
ValidatePositional(response_value, schema_value, field_path, st) ==
    IF ~IsList(response_value)
    THEN Record(st, ExpectedKindMsg(field_path, "array", response_value))
    ELSE IF Len(response_value.a) # Len(schema_value.a)
    THEN Record(st, "Validation Error at '" \o field_path \o "': expected array of length "
                    \o ToString(Len(schema_value.a)) \o ", got "
                    \o ToString(Len(response_value.a)) \o ".")
    ELSE ValidateZip(response_value.a, schema_value.a, 1, field_path, st)

\* the list rule going on into the item schema after a value that is not a
\* list
ValidateList_Descends(response_value, schema_value, field_path, st) ==
    IF IsItemSchema(schema_value)
    THEN IF ~IsList(response_value)
         THEN _validate_field(response_value, schema_value.a[1], ItemPath(field_path, 0),
                    Record(st, ExpectedKindMsg(field_path, "array", response_value)))
         ELSE ValidateItems(response_value.a, schema_value.a[1], 1, field_path, st)
    ELSE ValidatePositional(response_value, schema_value, field_path, st)

\* lines 110-126: schema_value is a list
ValidateList(response_value, schema_value, field_path, st) ==
    IF IsItemSchema(schema_value)
    THEN IF ~IsList(response_value)
         THEN Record(st, ExpectedKindMsg(field_path, "array", response_value))
         ELSE ValidateItems(response_value.a, schema_value.a[1], 1, field_path, st)
    ELSE ValidatePositional(response_value, schema_value, field_path, st)

\* lines 24-129
_validate_field(response_value, original_schema_value, field_path, st) ==
    LET optional == is_optional(original_schema_value)
        schema_value == StripOptional(original_schema_value)
    IN
    IF optional /\ IsNone(response_value) THEN st
    ELSE IF schema_value = JStr(PRESENT_FIELD)
    THEN (IF IsNone(response_value)
          THEN Record(st, "Validation Error: Field '" \o field_path
                          \o "' is missing but expected to be present.")
          ELSE st)
    ELSE IF schema_value = JStr(IGNORE_FIELD) THEN st
    ELSE LET check == MissingValueCheck(response_value, schema_value, optional) IN
         IF check = "AttributeError" THEN Raise(st, "AttributeError")
         ELSE IF check = "missing"
         THEN Record(st, "Validation Error: Expected a value, but field '" \o field_path
                         \o "' is missing.")
         ELSE IF IsStr(schema_value)
         THEN ValidateString(response_value, schema_value, field_path, st)
         ELSE IF IsDict(schema_value)
         THEN ValidateDict(response_value, schema_value, field_path, st)
         ELSE IF IsList(schema_value)
         THEN ValidateList(response_value, schema_value, field_path, st)
         ELSE ValidateLiteral(response_value, schema_value, field_path, st)

\* "\n".join(errors)
RECURSIVE JoinLines(_)
JoinLines(lines) ==
    IF lines = <<>> THEN ""
    ELSE IF Len(lines) = 1 THEN lines[1]
    ELSE Head(lines) \o "\n" \o JoinLines(Tail(lines))

\* lines 131-134: the outcome of the call, a returned pair or a raised
\* exception
Outcome(st) ==
    IF st.raised # "none"
    THEN [raised |-> st.raised, ok |-> FALSE, message |-> ""]
    ELSE IF st.errors # <<>>
    THEN [raised |-> "none", ok |-> FALSE, message |-> JoinLines(st.errors)]
    ELSE [raised |-> "none", ok |-> TRUE, message |-> "Validation successful."]


(***************************************************************************)
(* The explored inputs: observed values and schema nodes built from the    *)
(* grammar, over a small alphabet.                                         *)
(***************************************************************************)
SeqsUpTo(S, n) == UNION {[1..m -> S] : m \in 0..n}

\* dicts with at most two members, taken from keys in either order
DictsOver(keys, vals) ==
    {<<>>}
    \cup {<<Member(key, v)>> : key \in keys, v \in vals}
    \cup {<<Member(k1, v1), Member(k2, v2)>> :
            <<k1, k2>> \in {kk \in keys \X keys : kk[1] # kk[2]},
            <<v1, v2>> \in vals \X vals}

Keys == {"a", "b"}
StrX == JStr(<<"x">>)
StrY == JStr(<<"y">>)
userSchema == <<"u", "s", "e", "r", "S", "c", "h", "e", "m", "a">>
missingName == <<"m", "i", "s", "s", "i", "n", "g">>
IdObj(v) == JObj(<<Member("id", v)>>)

ScalarVals ==
    {JNull, JBool(TRUE), JBool(FALSE), StrX, StrY} \cup {JNum(n) : n \in 0..MaxNum}
ArrayVals ==
    {JArr(xs) : xs \in SeqsUpTo({JNull, JBool(TRUE), JNum(1), StrX}, MaxLen)
                       \cup SeqsUpTo({IdObj(JNum(1)), IdObj(StrX)}, MaxLen)}
MemberVals ==
    ScalarVals \cup {JArr(<<>>), JArr(<<IdObj(JNum(1))>>), JArr(<<IdObj(StrX)>>)}
    \cup {IdObj(JNum(1)), JArr(<<JNum(1), StrX>>)}
ObjectVals == {JObj(ms) : ms \in DictsOver(Keys, MemberVals)}
\* strings for the regex token to meet
Abc == <<"a", "b", "c">>
TextVals == {JStr(Abc \o <<"d", "e", "f">>), JStr(<<"x">> \o Abc), JStr(Abc)}
\* objects three levels deep: a.b is an array of three objects with member c
CObj(v) == JObj(<<Member("c", v)>>)
DeepObj(items) == JObj(<<Member("a", JObj(<<Member("b", JArr(items))>>))>>)
DeepVals == {DeepObj(items) : items \in [1..3 -> {CObj(StrX), CObj(JNum(1))}]}
ResponseVals == ScalarVals \cup ArrayVals \cup ObjectVals \cup TextVals \cup DeepVals

\* type tokens, presence tokens, a regex, array references and a literal
TypeTokens == {STRING_FIELD, NUMBER_FIELD, BOOLEAN_FIELD, OBJECT_FIELD, ARRAY_FIELD}
ArrayRefTokens ==
    {prefix \o name : prefix \in {EMPTY_LIST_FIELD, OPTIONAL_LIST_FIELD_PREFIX},
                      name \in {userSchema, missingName}}
BaseStrings ==
    TypeTokens
    \cup {PRESENT_FIELD, IGNORE_FIELD, NULL_FIELD, NOTNULL_FIELD, EMPTY_LIST_FIELD}
    \cup {REGEX_FIELD \o <<"^", "x">>, <<"x">>, <<>>}
    \cup {REGEX_FIELD \o (<<"^">> \o Abc), REGEX_FIELD \o <<"b", "c">>}
    \cup {EMPTY_LIST_FIELD \o userSchema, EMPTY_LIST_FIELD \o missingName}
StringSchemas ==
    {JStr(cs) : cs \in BaseStrings \cup ArrayRefTokens
                       \cup {OPTIONAL_FIELD_PREFIX \o rest : rest \in BaseStrings}}
LiteralSchemas == {JNull, JBool(TRUE), JBool(FALSE)} \cup {JNum(n) : n \in 0..MaxNum}
IdSchema == IdObj(JStr(NUMBER_FIELD))
MemberSchemas ==
    {JStr(STRING_FIELD), JStr(NUMBER_FIELD), JStr(NULL_FIELD),
     JStr(OPTIONAL_FIELD_PREFIX \o NUMBER_FIELD), StrX, JNum(1), JBool(TRUE),
     IdSchema, JArr(<<JNum(1), JStr(STRING_FIELD)>>)}
ObjectSchemas == {JObj(ms) : ms \in DictsOver(Keys, MemberSchemas)}
\* a schema document that holds the fragment userSchema next to a field
\* that refers to a fragment by name
RegistrySchemas ==
    {JObj(<<Member("userSchema", IdSchema), Member("a", JStr(token))>>) :
        token \in ArrayRefTokens}
ItemSchemas ==
    {JStr(NUMBER_FIELD), JStr(STRING_FIELD), JStr(OPTIONAL_FIELD_PREFIX \o <<"x">>),
     StrX, JNum(1), JBool(TRUE), IdSchema}
ArraySchemas ==
    {JArr(<<>>)}
    \cup {JArr(<<s1>>) : s1 \in ItemSchemas}
    \cup {JArr(<<s1, s2>>) : s1 \in ItemSchemas, s2 \in ItemSchemas}
    \cup {JArr(<<JNum(1), JStr(STRING_FIELD), StrX>>)}
DeepSchemas == {DeepObj(<<CObj(JStr(STRING_FIELD))>>)}
SchemaVals ==
    StringSchemas \cup LiteralSchemas \cup ObjectSchemas \cup RegistrySchemas
    \cup ArraySchemas \cup DeepSchemas

(***************************************************************************)
(* One call of validate_json_schema(response_data, schema).                *)
(***************************************************************************)
NoResult == [raised |-> "none", ok |-> FALSE, message |-> ""]

\* the parts of the state a specification does not exercise stay as they
\* are here
MatcherOff ==
    /\ response_data = JNull
    /\ schema = JNull
    /\ errors = <<>>
    /\ result = NoResult
    /\ pc = "off"
CallsOff ==
    /\ frames = <<>>
    /\ completed = {}
\* Optional[str]: None or one string
None == <<>>
Some(x) == <<x>>
NoRequest == [k |-> "none"]
NoPass == [k |-> "none"]
NoReply == [k |-> "none"]
ClientOff ==
    /\ session_headers = <<>>
    /\ oauth_token = None
    /\ rate_limit_delay = 0
    /\ last_request_time = 0
    /\ now = 0
    /\ sent = NoRequest
    /\ auth_writer = "off"
    /\ gate = NoPass
    /\ response_hooks = <<>>
    /\ hook_log = <<>>
    /\ reply = NoReply
FactoryOff ==
    /\ _clients = <<>>
    /\ closed = {}
    /\ constructed = 0
    /\ returned = [k |-> "none"]
    /\ made = <<>>
NoStores == [global |-> <<>>, feature |-> <<>>, scenario |-> <<>>]
RunOff ==
    /\ run_pc = "off"
    /\ feature_no = 0
    /\ scenario_no = 0
    /\ scenario_status = "none"
    /\ context_response = None
    /\ store = <<>>
    /\ feature_store = <<>>
    /\ scenario_store = <<>>
    /\ looked = None
    /\ checked = None
    /\ expected = NoStores
LoaderOff ==
    /\ files = <<>>
    /\ rsp_content = <<>>
    /\ country = ""
    /\ item_nested = <<>>
    /\ file_path = <<>>
    /\ expected_json = JNull
    /\ lpc = "off"
    /\ lexc = "none"

Init ==
    /\ response_data \in ResponseVals
    /\ schema \in SchemaVals
    /\ errors = <<>>
    /\ result = NoResult
    /\ pc = "call"
    /\ CallsOff
    /\ LoaderOff
    /\ ClientOff
    /\ FactoryOff
    /\ RunOff

\* lines 21-134
validate_json_schema ==
    /\ pc = "call"
    /\ LET st == _validate_field(response_data, schema, "", NoError) IN
       /\ errors' = st.errors
       /\ result' = Outcome(st)
       /\ pc' = IF st.raised = "none" THEN "returned" ELSE "raised"
    /\ UNCHANGED <<response_data, schema>>
    /\ UNCHANGED <<callVars, loaderVars, clientVars, factoryVars, runVars>>

Next == validate_json_schema

Spec == Init /\ [][Next]_vars

Done == pc \in {"returned", "raised"}

(***************************************************************************)
(* Calls of validate_json_schema side by side.  Each caller runs the       *)
(* function in its own frame; a frame steps through the top-level members  *)
(* or elements one at a time, so that the calls interleave inside the      *)
(* walk.  A frame keeps what the previous call of its caller left in it    *)
(* until the next call overwrites it.                                      *)
(***************************************************************************)
Callers == 1..NCallers

CallInputs ==
    {<<JObj(<<Member("a", JNum(1)), Member("b", JNum(1))>>),
       JObj(<<Member("a", JStr(STRING_FIELD)), Member("b", JStr(STRING_FIELD))>>)>>,
     <<JArr(<<JNum(1), StrX>>), JArr(<<JNum(1), JStr(STRING_FIELD)>>)>>,
     <<JObj(<<>>), JObj(<<Member("a", JStr(STRING_FIELD)), Member("b", JNum(1))>>)>>}

IdleFrame ==
    [observed |-> JNull, node |-> JNull, errors |-> <<>>, next |-> 0,
     result |-> NoResult, runs |-> 0, pc |-> "idle"]

\* the accumulator kept from the previous call
NewAccumulator_Kept(previous) == previous

\* line 22: errors = []
NewAccumulator(previous) == <<>>

\* the top-level walk descends into the members or elements (lines 108-109,
\* 116-117, 125-126) unless it ends at the node itself
Descends(observed, node) ==
    \/ IsDict(node) /\ IsDict(observed)
    \/ /\ IsList(node) /\ IsList(observed)
       /\ (IsItemSchema(node) \/ Len(observed.a) = Len(node.a))
Unit(observed, node, field_path) == [obs |-> observed, node |-> node, path |-> field_path]
Units(observed, node) ==
    IF ~Descends(observed, node) THEN <<Unit(observed, node, "")>>
    ELSE IF IsDict(node)
    THEN [i \in DOMAIN node.o |->
            Unit(DictGet(observed.o, node.o[i].key), node.o[i].val,
                 MemberPath("", node.o[i].key))]
    ELSE IF IsItemSchema(node)
    THEN [i \in DOMAIN observed.a |->
            Unit(observed.a[i], node.a[1], ItemPath("", i - 1))]
    ELSE [i \in DOMAIN node.a |->
            Unit(observed.a[i], node.a[i], ItemPath("", i - 1))]

CallsInit ==
    /\ frames = [c \in Callers |-> IdleFrame]
    /\ completed = {}
    /\ MatcherOff
    /\ LoaderOff
    /\ ClientOff
    /\ FactoryOff
    /\ RunOff

\* lines 21-22: a caller enters the function
Call(c) ==
    /\ frames[c].pc \in {"idle", "returned", "raised"}
    /\ frames[c].runs < MaxRuns
    /\ \E input \in CallInputs :
          frames' = [frames EXCEPT ![c] =
                        [observed |-> input[1], node |-> input[2],
                         errors |-> NewAccumulator(frames[c].errors), next |-> 1,
                         result |-> NoResult, runs |-> frames[c].runs + 1,
                         pc |-> "walk"]]
    /\ UNCHANGED <<completed, matcherVars, loaderVars, clientVars, factoryVars, runVars>>

\* lines 24-129: the walk of the next member or element
WalkStep(c) ==
    /\ frames[c].pc = "walk"
    /\ frames[c].next <= Len(Units(frames[c].observed, frames[c].node))
    /\ LET f == frames[c]
           unit == Units(f.observed, f.node)[f.next]
           st == _validate_field(unit.obs, unit.node, unit.path,
                                 [errors |-> f.errors, raised |-> "none"])
       IN  IF st.raised = "none"
           THEN /\ frames' = [frames EXCEPT ![c].errors = st.errors,
                                            ![c].next = f.next + 1]
                /\ UNCHANGED completed
           ELSE /\ frames' = [frames EXCEPT ![c].errors = st.errors,
                                            ![c].result = Outcome(st),
                                            ![c].pc = "raised"]
                /\ completed' = completed \cup {<<f.observed, f.node, Outcome(st)>>}
    /\ UNCHANGED <<matcherVars, loaderVars, clientVars, factoryVars, runVars>>

\* lines 131-134: the walk is over, the pair is returned
Return(c) ==
    /\ frames[c].pc = "walk"
    /\ frames[c].next > Len(Units(frames[c].observed, frames[c].node))
    /\ LET f == frames[c]
           out == Outcome([errors |-> f.errors, raised |-> "none"])
       IN  /\ frames' = [frames EXCEPT ![c].result = out, ![c].pc = "returned"]
           /\ completed' = completed \cup {<<f.observed, f.node, out>>}
    /\ UNCHANGED <<matcherVars, loaderVars, clientVars, factoryVars, runVars>>

CallsNext == \E c \in Callers : Call(c) \/ WalkStep(c) \/ Return(c)

SpecCalls == CallsInit /\ [][CallsNext]_vars

(***************************************************************************)
(* The schema loader: get_schema_response (schema_validation.py:137-145),  *)
(* get_abs_file_path (file_handle.py:5-13), read_json_file (common.py:4-8).*)
(* A path is the sequence of its components below the directory the        *)
(* process runs in (PRO_DIR, constants.py:5).                              *)
(***************************************************************************)
\* constants.py:7: RESOURCES = os.path.join(PRO_DIR, 'resources')
RESOURCES == <<"resources">>

\* str.split(sep): the pieces of cs between the separators
RECURSIVE SplitFrom(_, _, _)
SplitFrom(cs, sep, piece) ==
    IF cs = <<>> THEN <<piece>>
    ELSE IF Head(cs) = sep THEN <<piece>> \o SplitFrom(Tail(cs), sep, <<>>)
    ELSE SplitFrom(Tail(cs), sep, Append(piece, Head(cs)))
split(cs, sep) == SplitFrom(cs, sep, <<>>)

\* Path(p).is_file()
is_file(p) == p \in DOMAIN files
\* Path(dir).rglob(pattern), files only: the files named pattern in dir or
\* in a directory below it
rglob(dir, pattern) ==
    {p \in DOMAIN files :
        /\ Len(p) > Len(dir)
        /\ SubSeq(p, 1, Len(dir)) = dir
        /\ p[Len(p)] = pattern}

\* line 141: the arguments handed to get_abs_file_path
Pattern == Text(item_nested[1]) \o ".json"
ScopeDir == RESOURCES \o <<country>>

\* the documents on disk and the places a file named users.json may be
FileName == <<"u", "s", "e", "r", "s">>
DocVals ==
    {JObj(<<Member("a", JObj(<<Member("b", JNum(1))>>))>>),
     JObj(<<Member("a", JNum(1)), Member("b", JNull)>>),
     JArr(<<StrX>>)}
Places ==
    {<<"users.json">>,
     <<"resources", "cn", "users.json">>,
     <<"resources", "cn", "sub", "users.json">>,
     <<"resources", "us", "users.json">>}
OtherFile == <<"resources", "cn", "orders.json">>
Disks ==
    UNION {{[p \in P \cup {OtherFile} |-> IF p = OtherFile THEN JObj(<<>>) ELSE d[p]] :
                d \in [P -> DocVals]} : P \in SUBSET Places}
\* references: the file name followed by up to MaxSegments keys
RECURSIVE Dotted(_)
Dotted(keys) == IF keys = <<>> THEN <<>> ELSE <<".", Head(keys)>> \o Dotted(Tail(keys))
References == {FileName \o Dotted(keys) : keys \in SeqsUpTo({"a", "b", "z"}, MaxSegments)}

LoaderInit ==
    /\ files \in Disks
    /\ rsp_content \in References
    /\ country \in {"cn", "us"}
    /\ item_nested = <<>>
    /\ file_path = <<>>
    /\ expected_json = JNull
    /\ lpc = "call"
    /\ lexc = "none"
    /\ MatcherOff
    /\ CallsOff
    /\ ClientOff
    /\ FactoryOff
    /\ RunOff

\* schema_validation.py:138-140
get_schema_response ==
    /\ lpc = "call"
    /\ item_nested' = split(rsp_content, ".")
    /\ lpc' = "lookup"
    /\ UNCHANGED <<files, rsp_content, country, file_path, expected_json, lexc>>
    /\ UNCHANGED <<matcherVars, callVars, clientVars, factoryVars, runVars>>

\* file_handle.py:6-7: the pattern is itself the path of a file
ExactPath ==
    /\ lpc = "lookup"
    /\ is_file(<<Pattern>>)
    /\ file_path' = <<Pattern>>
    /\ lpc' = "read"
    /\ UNCHANGED <<files, rsp_content, country, item_nested, expected_json, lexc>>
    /\ UNCHANGED <<matcherVars, callVars, clientVars, factoryVars, runVars>>

\* file_handle.py:8-13: the search below the scope directory
SearchFiles ==
    /\ lpc = "lookup"
    /\ ~is_file(<<Pattern>>)
    /\ LET found_files == rglob(ScopeDir, Pattern) IN
       IF Cardinality(found_files) > 1 \/ Cardinality(found_files) = 0
       THEN /\ lpc' = "raised"
            /\ lexc' = "Exception"
            /\ UNCHANGED file_path
       ELSE /\ file_path' = CHOOSE p \in found_files : TRUE
            /\ lpc' = "read"
            /\ UNCHANGED lexc
    /\ UNCHANGED <<files, rsp_content, country, item_nested, expected_json>>
    /\ UNCHANGED <<matcherVars, callVars, clientVars, factoryVars, runVars>>

\* common.py:4-8, called at schema_validation.py:142; the loop of line 143
\* then runs over item_nested[1:]
read_json_file ==
    /\ lpc = "read"
    /\ expected_json' = IF file_path \in DOMAIN files THEN files[file_path] ELSE JObj(<<>>)
    /\ lpc' = "descend"
    /\ item_nested' = Tail(item_nested)
    /\ UNCHANGED <<files, rsp_content, country, file_path, lexc>>
    /\ UNCHANGED <<matcherVars, callVars, clientVars, factoryVars, runVars>>

\* schema_validation.py:143-144: one turn of the loop over item_nested[1:];
\* item_nested holds the keys still to come.  Only a dict has get.
Descend ==
    /\ lpc = "descend"
    /\ item_nested # <<>>
    /\ IF IsDict(expected_json)
       THEN /\ expected_json' =
                    IF Text(Head(item_nested)) \in DictKeys(expected_json.o)
                    THEN DictGet(expected_json.o, Text(Head(item_nested)))
                    ELSE JObj(<<>>)
            /\ item_nested' = Tail(item_nested)
            /\ UNCHANGED <<lpc, lexc>>
       ELSE /\ lpc' = "raised"
            /\ lexc' = "AttributeError"
            /\ UNCHANGED <<expected_json, item_nested>>
    /\ UNCHANGED <<files, rsp_content, country, file_path>>
    /\ UNCHANGED <<matcherVars, callVars, clientVars, factoryVars, runVars>>

\* schema_validation.py:145
ReturnSchema ==
    /\ lpc = "descend"
    /\ item_nested = <<>>
    /\ lpc' = "returned"
    /\ UNCHANGED <<files, rsp_content, country, item_nested, file_path, expected_json,
                   lexc>>
    /\ UNCHANGED <<matcherVars, callVars, clientVars, factoryVars, runVars>>

LoaderNext ==
    \/ get_schema_response
    \/ ExactPath
    \/ SearchFiles
    \/ read_json_file
    \/ Descend
    \/ ReturnSchema

SpecLoader == LoaderInit /\ [][LoaderNext]_vars

(***************************************************************************)
(* HTTPClient (client.py:70-343): the session's headers, the OAuth token   *)
(* and the rate limiter.  session.headers is a case-insensitive dict: an   *)
(* entry is kept under the lower-cased name.                               *)
(***************************************************************************)
HeaderNames == {"Authorization", "authorization", "X-Request-ID"}
HeaderValues == {"Basic dXNlcg=="}
Tokens == {"", "t1", "t2"}

\* CaseInsensitiveDict keys: str.lower of the header names in use
lower(name) ==
    CASE name \in {"Authorization", "authorization"} -> "authorization"
      [] name = "X-Request-ID" -> "x-request-id"
      [] name = "User-Agent" -> "user-agent"
      [] name = "Accept" -> "accept"

\* session.headers.update({key: value})
Update(headers, key, value) ==
    [k \in DOMAIN headers \cup {lower(key)} |->
        IF k = lower(key) THEN value ELSE headers[k]]
\* session.headers.pop(key, None)
Pop(headers, key) == [k \in DOMAIN headers \ {lower(key)} |-> headers[k]]
\* update with a dict, entry by entry in the order of the dict
RECURSIVE UpdateAll(_, _)
UpdateAll(headers, items) ==
    IF items = <<>> THEN headers
    ELSE UpdateAll(Update(headers, Head(items).key, Head(items).val), Tail(items))

\* client.py:120-124: the headers of a new session, config.headers being empty
DefaultHeaders ==
    Update(Update(<<>>, "User-Agent", "BDD-API-Automation-Client/1.0"),
           "Accept", "application/json")

\* client.py:141-148
_update_auth_header_KeepFirst(headers, token) ==
    IF token # None /\ token[1] # ""
    THEN IF "authorization" \in DOMAIN headers THEN headers
         ELSE Update(headers, "Authorization", "Bearer " \o token[1])
    ELSE Pop(headers, "Authorization")
_update_auth_header(headers, token) ==
    IF token # None /\ token[1] # ""
    THEN Update(headers, "Authorization", "Bearer " \o token[1])
    ELSE Pop(headers, "Authorization")

\* client.py:316-319 and the merge done by session.request: the per-request
\* headers are laid over the session's, name by name
MergedHeaders(headers) ==
    IF headers # <<>> THEN UpdateAll(session_headers, headers) ELSE session_headers

\* client.py:204-206: the limiter has to hold the request back
MustWait_Never(delay, elapsed) == FALSE
MustWait(delay, elapsed) == delay > 0 /\ elapsed < delay
\* client.py:207
sleep_time(delay, elapsed) == delay - elapsed

\* dicts of headers: up to MaxHeaders entries with different names
HeaderDicts ==
    {h \in SeqsUpTo([key : HeaderNames, val : HeaderValues], MaxHeaders) :
        \A i, j \in DOMAIN h : i # j => h[i].key # h[j].key}
Names(headers) == {lower(headers[i].key) : i \in DOMAIN headers}
Delays == 0..MaxDelay
\* time.time() counts from 1970: the clock starts far above any delay
StartTime == MaxDelay + 1
EndTime == StartTime + MaxTime

\* client.py:89-95 with ClientConfig's defaults (lines 53-68)
ClientInit ==
    /\ session_headers = DefaultHeaders
    /\ oauth_token = None
    /\ rate_limit_delay = 0
    /\ last_request_time = 0
    /\ now = StartTime
    /\ sent = NoRequest
    /\ auth_writer = "none"
    /\ gate = NoPass
    /\ response_hooks = <<>>
    /\ hook_log = <<>>
    /\ reply = NoReply
    /\ MatcherOff
    /\ CallsOff
    /\ LoaderOff
    /\ FactoryOff
    /\ RunOff

\* client.py:130-139
set_oauth_token(token) ==
    /\ oauth_token' = Some(token)
    /\ session_headers' = _update_auth_header(session_headers, Some(token))
    /\ auth_writer' = "token"
    /\ UNCHANGED <<rate_limit_delay, last_request_time, now, sent, gate>>
    /\ UNCHANGED <<response_hooks, hook_log, reply>>
    /\ UNCHANGED <<matcherVars, callVars, loaderVars, factoryVars, runVars>>

\* client.py:150-159
set_header(key, value) ==
    /\ session_headers' = Update(session_headers, key, value)
    /\ auth_writer' = IF lower(key) = "authorization" THEN "header" ELSE auth_writer
    /\ UNCHANGED <<oauth_token, rate_limit_delay, last_request_time, now, sent, gate>>
    /\ UNCHANGED <<response_hooks, hook_log, reply>>
    /\ UNCHANGED <<matcherVars, callVars, loaderVars, factoryVars, runVars>>

\* client.py:161-169
set_headers(headers) ==
    /\ session_headers' = UpdateAll(session_headers, headers)
    /\ auth_writer' = IF "authorization" \in Names(headers) THEN "header" ELSE auth_writer
    /\ UNCHANGED <<oauth_token, rate_limit_delay, last_request_time, now, sent, gate>>
    /\ UNCHANGED <<response_hooks, hook_log, reply>>
    /\ UNCHANGED <<matcherVars, callVars, loaderVars, factoryVars, runVars>>

\* client.py:192-200
set_rate_limit_delay(delay) ==
    /\ rate_limit_delay' = delay
    /\ UNCHANGED <<session_headers, oauth_token, last_request_time, now, sent,
                   auth_writer, gate, response_hooks, hook_log, reply>>
    /\ UNCHANGED <<matcherVars, callVars, loaderVars, factoryVars, runVars>>

\* client.py:66: the statuses the adapter retries, and the statuses a server
\* answers with here
retry_status_codes == {429, 500, 502, 503, 504}
Statuses == {200, 404, 503}
\* what the server answers to the first attempt and to each retry; no
\* attempt follows an answer that is not retried, so that answer is repeated
ServerReplies ==
    {replies \in [1..(MaxRetries + 1) -> Statuses] :
        \A i \in 1..MaxRetries :
            replies[i] \notin retry_status_codes => replies[i + 1] = replies[i]}
Hooks == {"h1", "h2"}

\* client.py:108-119, 328: session.request through the adapter with the
\* retry strategy.  An answer whose status is in status_forcelist is retried;
\* once the retries are used up the adapter raises (raise_on_status is left
\* at its default) and no response comes back.
RECURSIVE session_request(_, _)
session_request(replies, attempt) ==
    IF replies[attempt] \in retry_status_codes
    THEN IF attempt <= MaxRetries
         THEN session_request(replies, attempt + 1)
         ELSE [k |-> "raised", exc |-> "RetryError", status |-> replies[attempt]]
    ELSE [k |-> "response", status |-> replies[attempt]]

\* client.py:337: response.raise_for_status()
raise_for_status_Never(status) == FALSE
raise_for_status(status) == status >= 400

\* client.py:238-241: every registered hook is called with the response
_execute_response_hooks(status) ==
    [i \in DOMAIN response_hooks |-> [hook |-> response_hooks[i], status |-> status]]

\* client.py:260-343 with _apply_rate_limit (202-210): the limiter sleeps
\* sleep_time or longer, stamps last_request_time from the clock, the
\* request goes out with the merged headers, the response hooks run on the
\* response, and the response is returned or an exception raised.  No
\* request hook is registered.
RequestCall(headers, replies) ==
    /\ LET elapsed == now - last_request_time IN
       \E slept \in 0..(MaxDelay + MaxOversleep) :
           /\ IF MustWait(rate_limit_delay, elapsed)
              THEN /\ slept >= sleep_time(rate_limit_delay, elapsed)
                   /\ slept <= sleep_time(rate_limit_delay, elapsed) + MaxOversleep
              ELSE slept = 0
           /\ now + slept <= EndTime
           /\ now' = now + slept
           /\ last_request_time' = now + slept
    /\ gate' = [k |-> "pass", previous |-> last_request_time, called |-> now,
                delay |-> rate_limit_delay]
    /\ sent' = [k |-> "request", headers |-> MergedHeaders(headers),
                token |-> oauth_token, own |-> Names(headers),
                writer |-> auth_writer]
    /\ LET response == session_request(replies, 1) IN
       IF response.k = "raised"
       THEN /\ hook_log' = <<>>
            /\ reply' = [k |-> "raised", exc |-> response.exc,
                         status |-> response.status, hooks |-> response_hooks]
       ELSE /\ hook_log' = _execute_response_hooks(response.status)
            /\ reply' = IF raise_for_status(response.status)
                        THEN [k |-> "raised", exc |-> "HTTPError",
                              status |-> response.status, hooks |-> response_hooks]
                        ELSE [k |-> "returned", exc |-> "none",
                              status |-> response.status, hooks |-> response_hooks]
    /\ UNCHANGED <<session_headers, oauth_token, rate_limit_delay, auth_writer,
                   response_hooks>>

request(headers) ==
    /\ \E replies \in ServerReplies : RequestCall(headers, replies)
    /\ UNCHANGED <<matcherVars, callVars, loaderVars, factoryVars, runVars>>

\* client.py:222-230
register_response_hook(hook) ==
    /\ Len(response_hooks) < MaxHooks
    /\ response_hooks' = Append(response_hooks, hook)
    /\ UNCHANGED <<session_headers, oauth_token, rate_limit_delay, last_request_time,
                   now, sent, auth_writer, gate, hook_log, reply>>
    /\ UNCHANGED <<matcherVars, callVars, loaderVars, factoryVars, runVars>>

\* the clock moves on between two calls
Tick ==
    /\ now < EndTime
    /\ now' = now + 1
    /\ UNCHANGED <<session_headers, oauth_token, rate_limit_delay, last_request_time,
                   sent, auth_writer, gate, response_hooks, hook_log, reply>>
    /\ UNCHANGED <<matcherVars, callVars, loaderVars, factoryVars, runVars>>

\* the calls that touch the headers
AuthNext ==
    \/ \E token \in Tokens : set_oauth_token(token)
    \/ \E key \in HeaderNames, value \in HeaderValues : set_header(key, value)
    \/ \E headers \in HeaderDicts : set_headers(headers)
    \/ \E headers \in HeaderDicts : request(headers)
SpecAuth == ClientInit /\ [][AuthNext]_vars

\* the calls that touch the rate limiter, and the clock
RateNext ==
    \/ \E delay \in Delays : set_rate_limit_delay(delay)
    \/ \E headers \in HeaderDicts : request(headers)
    \/ Tick
SpecRate == ClientInit /\ [][RateNext]_vars

(***************************************************************************)
(* ClientFactory (client.py:500-559).  A client is the number under which  *)
(* it was constructed.                                                     *)
(***************************************************************************)
ClientNames == {"api_v1", "api_v2", "auth"}

FactoryInit ==
    /\ _clients = <<>>
    /\ closed = {}
    /\ constructed = 0
    /\ returned = [k |-> "none"]
    /\ made = [name \in ClientNames |-> <<>>]
    /\ MatcherOff
    /\ CallsOff
    /\ LoaderOff
    /\ ClientOff
    /\ RunOff

\* client.py:529
MustCreate_Always(name) == TRUE
MustCreate(name) == name \notin DOMAIN _clients

\* client.py:529-539
create_client(name) ==
    /\ IF MustCreate(name)
       THEN /\ constructed < MaxClients
            /\ constructed' = constructed + 1
            /\ _clients' = [n \in DOMAIN _clients \cup {name} |->
                                IF n = name THEN constructed + 1 ELSE _clients[n]]
            /\ made' = [made EXCEPT ![name] = Append(@, constructed + 1)]
       ELSE UNCHANGED <<constructed, _clients, made>>
    /\ returned' = [k |-> "create_client", name |-> name, value |-> Some(_clients'[name])]
    /\ UNCHANGED closed
    /\ UNCHANGED <<matcherVars, callVars, loaderVars, clientVars, runVars>>

\* client.py:541-552
get_client(name) ==
    /\ returned' = [k |-> "get_client", name |-> name,
                    value |-> IF name \in DOMAIN _clients THEN Some(_clients[name])
                              ELSE None]
    /\ UNCHANGED <<_clients, closed, constructed, made>>
    /\ UNCHANGED <<matcherVars, callVars, loaderVars, clientVars, runVars>>

\* client.py:554-559
close_all ==
    /\ closed' = closed \cup {_clients[n] : n \in DOMAIN _clients}
    /\ _clients' = <<>>
    /\ made' = [name \in ClientNames |-> <<>>]
    /\ returned' = [k |-> "close_all"]
    /\ UNCHANGED constructed
    /\ UNCHANGED <<matcherVars, callVars, loaderVars, clientVars, runVars>>

FactoryNext ==
    \/ \E name \in ClientNames : create_client(name)
    \/ \E name \in ClientNames : get_client(name)
    \/ close_all
SpecFactory == FactoryInit /\ [][FactoryNext]_vars

(***************************************************************************)
(* A behave run: the hooks of features/environment.py and the steps of     *)
(* features/steps/generic/generic.py, with the lookup of                   *)
(* utils/str_handle.py.  Keys and values are strings, kept as sequences of *)
(* characters; a stored value is a JSON value.                             *)
(***************************************************************************)
\* str_handle.py:6-13, with the feature store asked before the scenario store
get_context_value_by_key_FeatureFirst(key) ==
    IF key \in DOMAIN feature_store THEN feature_store[key]
    ELSE IF key \in DOMAIN scenario_store THEN scenario_store[key]
    ELSE IF key \in DOMAIN store THEN store[key]
    ELSE JStr(key)
\* str_handle.py:6-13
get_context_value_by_key(key) ==
    IF key \in DOMAIN scenario_store THEN scenario_store[key]
    ELSE IF key \in DOMAIN feature_store THEN feature_store[key]
    ELSE IF key \in DOMAIN store THEN store[key]
    ELSE JStr(key)

\* what a lookup should give by the stores as the run should have left them
Precedence(key) ==
    IF key \in DOMAIN expected.scenario THEN expected.scenario[key]
    ELSE IF key \in DOMAIN expected.feature THEN expected.feature[key]
    ELSE IF key \in DOMAIN expected.global THEN expected.global[key]
    ELSE JStr(key)
\* the record of a lookup
Lookup(key) ==
    Some([key |-> key, value |-> get_context_value_by_key(key), should |-> Precedence(key)])

\* str.strip(): the blanks at both ends removed
RECURSIVE lstrip(_)
lstrip(cs) == IF cs # <<>> /\ Head(cs) = " " THEN lstrip(Tail(cs)) ELSE cs
RECURSIVE rstrip(_)
rstrip(cs) ==
    IF cs # <<>> /\ cs[Len(cs)] = " " THEN rstrip(SubSeq(cs, 1, Len(cs) - 1)) ELSE cs
strip(cs) == rstrip(lstrip(cs))
\* str.replace(old, ""): every occurrence of old removed, left to right
RECURSIVE remove(_, _)
remove(cs, old) ==
    IF cs = <<>> THEN <<>>
    ELSE IF startswith(cs, old) THEN remove(SliceFrom(cs, Len(old)), old)
    ELSE <<Head(cs)>> \o remove(Tail(cs), old)

\* str_handle.py:51-58 with customize_get (40-48) for keys without an index:
\* the value under the dotted keys, or the exception raised on the way
RECURSIVE get_keys_value(_, _)
get_keys_value(keys, value) ==
    IF keys = <<>> THEN [k |-> "value", value |-> value]
    ELSE IF ~IsDict(value) THEN [k |-> "raised", exc |-> "AttributeError"]
    ELSE LET next == DictGet(value.o, Text(Head(keys))) IN
         IF IsNone(next) THEN [k |-> "raised", exc |-> "ValueError"]
         ELSE get_keys_value(Tail(keys), next)

\* the body of a response, response.json()
Body == JObj(<<Member("id", JStr(<<"7">>))>>)
ResponseOf(status) == Some([status_code |-> status, json |-> Body])

IdKey == <<"$", "{", "i", "d", "}">>
TokenKey == <<"$", "{", "t", "k", "}">>
VarKeys == {IdKey, TokenKey}
SetValues == {<<"1">>, <<" ", "2", " ">>, <<"$", ".", "i", "d">>, TokenKey}
Scopes == {None, Some("global"), Some("feature"), Some("scenario"), Some("local")}

RunInit ==
    /\ run_pc = "start"
    /\ feature_no = 0
    /\ scenario_no = 0
    /\ scenario_status = "none"
    /\ context_response = None
    /\ store = <<>>
    /\ feature_store = <<>>
    /\ scenario_store = <<>>
    /\ looked = None
    /\ checked = None
    /\ expected = NoStores
    /\ ClientOff
    /\ MatcherOff
    /\ CallsOff
    /\ LoaderOff
    /\ FactoryOff

\* environment.py:6-12, 15-26: the client is built from the module's config,
\* whose rate_limit_delay of half a second is one tick here
before_all ==
    /\ run_pc = "start"
    /\ run_pc' = "run"
    /\ store' = <<>>
    /\ session_headers' = DefaultHeaders
    /\ oauth_token' = None
    /\ rate_limit_delay' = 1
    /\ last_request_time' = 0
    /\ now' = StartTime
    /\ sent' = NoRequest
    /\ auth_writer' = "none"
    /\ gate' = NoPass
    /\ response_hooks' = <<>>
    /\ hook_log' = <<>>
    /\ reply' = NoReply
    /\ expected' = [expected EXCEPT !.global = <<>>]
    /\ UNCHANGED <<feature_no, scenario_no, scenario_status, context_response,
                   feature_store, scenario_store, looked, checked>>
    /\ UNCHANGED <<matcherVars, callVars, loaderVars, factoryVars>>

\* environment.py:32-33
before_feature ==
    /\ run_pc = "run"
    /\ feature_no < MaxFeatures
    /\ feature_no' = feature_no + 1
    /\ scenario_no' = 0
    /\ scenario_status' = "none"
    /\ feature_store' = <<>>
    /\ expected' = [expected EXCEPT !.feature = <<>>]
    /\ UNCHANGED <<run_pc, context_response, store, scenario_store, looked, checked>>
    /\ UNCHANGED <<matcherVars, callVars, loaderVars, clientVars, factoryVars>>

\* environment.py:36-41
before_scenario ==
    /\ run_pc = "run"
    /\ feature_no > 0
    /\ scenario_no < MaxScenarios
    /\ scenario_no' = scenario_no + 1
    /\ scenario_status' = "running"
    /\ context_response' = None
    /\ scenario_store' = <<>>
    /\ expected' = [expected EXCEPT !.scenario = <<>>]
    /\ UNCHANGED <<run_pc, feature_no, store, feature_store, looked, checked>>
    /\ UNCHANGED <<matcherVars, callVars, loaderVars, clientVars, factoryVars>>

\* generic.py:46-51: resolve_data looks up the ${...} of the request, here
\* one key, and the client sends the request; a raise fails the step and the
\* scenario with it, and context.response keeps what it held
step_request_method(key, replies) ==
    /\ scenario_status = "running"
    /\ looked' = Lookup(key)
    /\ RequestCall(<<>>, replies)
    /\ IF reply'.k = "returned"
       THEN /\ context_response' = ResponseOf(reply'.status)
            /\ UNCHANGED scenario_status
       ELSE /\ scenario_status' = "failed"
            /\ UNCHANGED context_response
    /\ UNCHANGED <<run_pc, feature_no, scenario_no, store, feature_store, scenario_store,
                   checked, expected>>
    /\ UNCHANGED <<matcherVars, callVars, loaderVars, factoryVars>>

\* generic.py:53-58: None has no status_code, and an assertion that fails
\* fails the step
step_response_status(status) ==
    /\ scenario_status = "running"
    /\ IF context_response = None
       THEN /\ scenario_status' = "failed"
            /\ UNCHANGED checked
       ELSE /\ checked' = Some([status_code |-> context_response[1].status_code,
                                expected |-> status])
            /\ scenario_status' = IF context_response[1].status_code = status
                                  THEN "running" ELSE "failed"
    /\ UNCHANGED <<run_pc, feature_no, scenario_no, context_response, store,
                   feature_store, scenario_store, looked, expected>>
    /\ UNCHANGED <<matcherVars, callVars, loaderVars, clientVars, factoryVars>>

\* generic.py:69-76: the value to store, or the exception raised on the way
actual_value(value) ==
    LET stripped == strip(value) IN
    IF startswith(stripped, <<"$", ".">>)
    THEN IF context_response = None THEN [k |-> "raised", exc |-> "AttributeError"]
         ELSE get_keys_value(split(remove(stripped, <<"$", ".">>), "."),
                             context_response[1].json)
    ELSE IF startswith(stripped, <<"$">>)
    THEN [k |-> "value", value |-> get_context_value_by_key(stripped)]
    ELSE [k |-> "value", value |-> JStr(stripped)]

\* m with m[key] = value
Stored(m, key, value) == [x \in DOMAIN m \cup {key} |-> IF x = key THEN value ELSE m[x]]

\* generic.py:67-82
step_set_variable(scope, arg, value) ==
    /\ scenario_status = "running"
    /\ looked' = IF startswith(strip(value), <<"$">>) /\ ~startswith(strip(value), <<"$", ".">>)
                  THEN Lookup(strip(value))
                  ELSE looked
    /\ LET actual == actual_value(value) IN
       IF actual.k = "raised"
       THEN /\ scenario_status' = "failed"
            /\ UNCHANGED <<store, feature_store, scenario_store, expected>>
       ELSE /\ UNCHANGED scenario_status
            /\ IF scope = Some("global")
               THEN /\ store' = Stored(store, arg, actual.value)
                    /\ UNCHANGED <<feature_store, scenario_store>>
               ELSE IF scope = Some("feature")
               THEN /\ feature_store' = Stored(feature_store, arg, actual.value)
                    /\ UNCHANGED <<store, scenario_store>>
               ELSE /\ scenario_store' = Stored(scenario_store, arg, actual.value)
                    /\ UNCHANGED <<store, feature_store>>
            /\ expected' =
                 LET named == IF scope \in {Some("global"), Some("feature")}
                              THEN scope[1] ELSE "scenario"
                 IN [expected EXCEPT ![named] = Stored(@, arg, actual.value)]
    /\ UNCHANGED <<run_pc, feature_no, scenario_no, context_response, checked>>
    /\ UNCHANGED <<matcherVars, callVars, loaderVars, clientVars, factoryVars>>

\* the hooks and the steps that send a request and look at its status; a
\* suite may hang response hooks on the client, and before_all starts from a
\* client without hooks
StepsNext ==
    \/ before_all
    \/ before_feature
    \/ before_scenario
    \/ \E hook \in Hooks : register_response_hook(hook)
    \/ \E key \in VarKeys, replies \in ServerReplies : step_request_method(key, replies)
    \/ \E status \in Statuses : step_response_status(status)
SpecSteps == RunInit /\ [][StepsNext]_vars

\* the hooks and the steps that write and read the variable stores
StoreNext ==
    \/ before_all
    \/ before_feature
    \/ before_scenario
    \/ \E scope \in Scopes, arg \in VarKeys, value \in SetValues :
            step_set_variable(scope, arg, value)
SpecStore == RunInit /\ [][StoreNext]_vars

(***************************************************************************)
(* Vocabulary of the properties.                                           *)
(***************************************************************************)
\* the walk of one node on its own, from an empty accumulator
Walk(observed, node, field_path) == _validate_field(observed, node, field_path, NoError)
\* the node validates: nothing raised, nothing recorded
Passes(observed, node) == Walk(observed, node, "") = NoError

\* the JSON kind a type token names
KindNamedBy(token) ==
    CASE token = STRING_FIELD -> "str"
      [] token = NUMBER_FIELD -> "num"
      [] token = BOOLEAN_FIELD -> "bool"
      [] token = OBJECT_FIELD -> "obj"
      [] token = ARRAY_FIELD -> "arr"

\* a string that the grammar reads as a literal: no optional prefix, no
\* token, no array reference, no regex
IsLiteralString(cs) ==
    /\ ~startswith(cs, OPTIONAL_FIELD_PREFIX)
    /\ ~startswith(cs, EMPTY_LIST_FIELD)
    /\ ~startswith(cs, REGEX_FIELD)
    /\ cs \notin TypeTokens
    /\ cs \notin {PRESENT_FIELD, IGNORE_FIELD, NULL_FIELD, NOTNULL_FIELD}
IsLiteralNode(node) ==
    \/ node.k \in {"num", "bool"}
    \/ node.k = "str" /\ IsLiteralString(node.s)

\* an array-reference token and the fragment name it carries
IsArrayRef(node) ==
    /\ node.k = "str"
    /\ \/ startswith(node.s, OPTIONAL_LIST_FIELD_PREFIX)
       \/ startswith(node.s, EMPTY_LIST_FIELD)
    /\ node.s \notin {OPTIONAL_LIST_FIELD_PREFIX, EMPTY_LIST_FIELD}
RefName(node) ==
    IF startswith(node.s, OPTIONAL_LIST_FIELD_PREFIX)
    THEN Text(SliceFrom(node.s, Len(OPTIONAL_LIST_FIELD_PREFIX)))
    ELSE Text(SliceFrom(node.s, Len(EMPTY_LIST_FIELD)))
\* the registry is the schema document handed to the call (line 59)
InRegistry(name) == IsDict(schema) /\ name \in DictKeys(schema.o)
Fragment(name) == DictGet(schema.o, name)

\* the members of the schema document that are array references, met with
\* an observed array
ArrayRefMembers ==
    IF IsDict(schema) /\ IsDict(response_data)
    THEN {i \in DOMAIN schema.o :
            /\ IsArrayRef(schema.o[i].val)
            /\ IsList(DictGet(response_data.o, schema.o[i].key))}
    ELSE {}

\* C1: a call never raises: whatever the observed value and the schema
\* node, it ends by returning a (bool, string) pair.
C1_NeverRaises ==
    Done => pc = "returned" /\ result.raised = "none"

\* C2: against a literal schema node (a non-sentinel string, a number or a
\* boolean) the call answers ok exactly when the observed value is that
\* same value of that same kind; true is not 1 and false is not 0.
C2_LiteralExact ==
    Done /\ IsLiteralNode(schema) => (result.ok <=> response_data = schema)

\* C3: an array-reference member whose fragment is in the registry, met
\* with an observed array, validates exactly when every element validates
\* against the fragment.
C3_ArrayRefValidatesElements ==
    Done =>
        \A i \in ArrayRefMembers :
            LET token == schema.o[i].val
                observed == DictGet(response_data.o, schema.o[i].key)
            IN  InRegistry(RefName(token)) =>
                    (Passes(observed, token)
                        <=> \A j \in DOMAIN observed.a :
                                Passes(observed.a[j], Fragment(RefName(token))))

\* C4: an array-reference member whose fragment is not in the registry
\* never validates, whatever the observed array, the empty one included.
C4_MissingFragmentReported ==
    Done =>
        \A i \in ArrayRefMembers :
            LET token == schema.o[i].val
                observed == DictGet(response_data.o, schema.o[i].key)
            IN  ~InRegistry(RefName(token)) => ~Passes(observed, token)

\* C5: the call returns (True, "Validation successful.") when the walk
\* recorded nothing and (False, the recorded lines joined by newlines)
\* otherwise; and an object schema met with an object, all of whose members
\* fail on their own, yields at least one line per member.
C5_AllViolationsReturned ==
    Done =>
        /\ result = IF errors = <<>>
                    THEN [raised |-> "none", ok |-> TRUE,
                          message |-> "Validation successful."]
                    ELSE [raised |-> "none", ok |-> FALSE,
                          message |-> JoinLines(errors)]
        /\ (/\ IsDict(schema) /\ IsDict(response_data)
            /\ \A i \in DOMAIN schema.o :
                    ~Passes(DictGet(response_data.o, schema.o[i].key), schema.o[i].val))
           => Len(errors) >= Len(schema.o)

\* C6: a schema string that starts with "##" met with null validates with
\* no diagnostic, whatever follows the prefix; so does a member of an object
\* schema whose key the observed object does not hold.
C6_OptionalNullPasses ==
    Done =>
        /\ (/\ IsStr(schema) /\ startswith(schema.s, <<"#", "#">>)
            /\ response_data = JNull)
           => (pc = "returned" /\ result.ok /\ errors = <<>>)
        /\ (IsDict(schema) /\ IsDict(response_data)) =>
                \A i \in DOMAIN schema.o :
                    (/\ IsStr(schema.o[i].val)
                     /\ startswith(schema.o[i].val.s, <<"#", "#">>)
                     /\ schema.o[i].key \notin DictKeys(response_data.o))
                    => Walk(DictGet(response_data.o, schema.o[i].key),
                            schema.o[i].val, "." \o schema.o[i].key) = NoError
        /\ (/\ IsDict(schema) /\ IsDict(response_data)
            /\ \A i \in DOMAIN schema.o :
                    /\ IsStr(schema.o[i].val)
                    /\ startswith(schema.o[i].val.s, <<"#", "#">>)
                    /\ schema.o[i].key \notin DictKeys(response_data.o))
           => (pc = "returned" /\ result.ok /\ errors = <<>>)

C6_Witness ==
    /\ pc = "returned"
    /\ schema = JStr(<<"#", "#", "[", "]">> \o userSchema)
    /\ response_data = JNull
    /\ result.ok

\* C7: against a type token the call answers ok exactly when the observed
\* value is of the JSON kind the token names, the six kinds being disjoint.
C7_TypeTokenKind ==
    (Done /\ IsStr(schema) /\ schema.s \in TypeTokens)
        => (result.ok <=> response_data.k = KindNamedBy(schema.s))

\* the lines that the elements of items, from element i on, yield against
\* node, element j (counted from 0) under the path [j]
RECURSIVE ItemLines(_, _, _)
ItemLines(items, node, i) ==
    IF i > Len(items) THEN <<>>
    ELSE Walk(items[i], node, "[" \o ToString(i - 1) \o "]").errors
            \o ItemLines(items, node, i + 1)

\* C8: against a one-element schema array [S] an observed array of any
\* length validates exactly when each of its elements validates against S,
\* and the diagnostics are those of its elements, element i under the path
\* [i].
C8_SingleElementHomogeneous ==
    (Done /\ IsList(schema) /\ Len(schema.a) = 1 /\ IsList(response_data)) =>
        /\ result.ok <=> \A j \in DOMAIN response_data.a :
                                Passes(response_data.a[j], schema.a[1])
        /\ errors = ItemLines(response_data.a, schema.a[1], 1)

\* C9: against a schema array of n >= 2 elements the call answers ok
\* exactly when the observed value is an array of length n whose element i
\* validates against schema element i; an array of another length yields the
\* length diagnostic alone, and no element is compared.
LengthMismatchMsg ==
    "Validation Error at '': expected array of length " \o ToString(Len(schema.a))
        \o ", got " \o ToString(Len(response_data.a)) \o "."
C9_PositionalArray ==
    (Done /\ IsList(schema) /\ Len(schema.a) >= 2) =>
        /\ result.ok <=>
              /\ IsList(response_data)
              /\ Len(response_data.a) = Len(schema.a)
              /\ \A j \in DOMAIN schema.a : Passes(response_data.a[j], schema.a[j])
        /\ (IsList(response_data) /\ Len(response_data.a) # Len(schema.a))
              => (pc = "returned" /\ errors = <<LengthMismatchMsg>>)

C9_Witness ==
    /\ pc = "returned"
    /\ schema = JArr(<<JNum(1), JStr(STRING_FIELD)>>)
    /\ response_data = JArr(<<JNum(1), StrX, StrX>>)
    /\ ~result.ok

\* C10: against an object schema S the outcome for an observed object O is
\* the outcome for the object that holds, for each key of S, the value O
\* holds for it (null when O has no such key) and nothing else.
RestrictTo(members, observed) ==
    JObj([i \in DOMAIN members |->
            Member(members[i].key, DictGet(observed.o, members[i].key))])
C10_OnlySchemaKeysCount ==
    (Done /\ IsDict(schema) /\ IsDict(response_data)) =>
        LET st == Walk(RestrictTo(schema.o, response_data), schema, "") IN
        /\ errors = st.errors
        /\ result = Outcome(st)

C10_Witness ==
    /\ pc = "returned"
    /\ schema = JObj(<<Member("a", JStr(STRING_FIELD))>>)
    /\ response_data = JObj(<<Member("b", JNum(1))>>)
    /\ Len(errors) = 1

\* C11: #ignore validates whatever is observed; #null validates exactly
\* when the observed value is null; #notnull and #present validate exactly
\* when it is not null, whatever its kind.
C11_NullnessTokens ==
    (Done /\ IsStr(schema)) =>
        /\ schema.s = IGNORE_FIELD => (pc = "returned" /\ result.ok)
        /\ schema.s = NULL_FIELD =>
                (pc = "returned" /\ (result.ok <=> response_data = JNull))
        /\ schema.s \in {NOTNULL_FIELD, PRESENT_FIELD} =>
                (pc = "returned" /\ (result.ok <=> response_data # JNull))

C11_Witness ==
    /\ pc = "returned"
    /\ schema = JStr(NULL_FIELD)
    /\ response_data = JArr(<<>>)
    /\ ~result.ok

\* C12: the bare token #[] validates exactly when the observed value is an
\* array of length zero, and anything else yields exactly one diagnostic.
C12_EmptyArrayToken ==
    (Done /\ schema = JStr(EMPTY_LIST_FIELD)) =>
        /\ pc = "returned"
        /\ result.ok <=> (IsList(response_data) /\ Len(response_data.a) = 0)
        /\ ~result.ok => Len(errors) = 1

C12_Witness ==
    /\ pc = "returned"
    /\ schema = JStr(EMPTY_LIST_FIELD)
    /\ response_data = JArr(<<JNum(1)>>)
    /\ Len(errors) = 1

\* C13: a regex token whose pattern is a literal text, with or without a
\* leading "^", validates exactly when the observed value is a string that
\* starts with that text; the string may go on after it; anything that is
\* not a string yields exactly one diagnostic.
IsRegexNode(node) == IsStr(node) /\ startswith(node.s, REGEX_FIELD)
PatternOf(node) == SliceFrom(node.s, Len(REGEX_FIELD))
LiteralOf(pattern) == IF startswith(pattern, <<"^">>) THEN Tail(pattern) ELSE pattern
IsLiteralPattern(pattern) ==
    \A i \in DOMAIN LiteralOf(pattern) : LiteralOf(pattern)[i] \notin {"^", "$", "."}
C13_RegexPrefixMatch ==
    (Done /\ IsRegexNode(schema) /\ IsLiteralPattern(PatternOf(schema))) =>
        /\ pc = "returned"
        /\ result.ok <=>
              /\ IsStr(response_data)
              /\ startswith(response_data.s, LiteralOf(PatternOf(schema)))
        /\ ~IsStr(response_data) => Len(errors) = 1

C13_Witness ==
    /\ pc = "returned"
    /\ schema = JStr(REGEX_FIELD \o <<"^", "a", "b", "c">>)
    /\ response_data = JStr(<<"a", "b", "c", "d", "e", "f">>)
    /\ result.ok

\* C14: a call that has ended, whatever the other callers did meanwhile
\* and whatever its caller ran before, ended as the same call run alone
\* ends; and all the calls made with the same inputs ended alike.
C14_CallsIndependent ==
    /\ \A c \in DOMAIN frames :
          frames[c].pc \in {"returned", "raised"} =>
              LET alone == Walk(frames[c].observed, frames[c].node, "") IN
              /\ frames[c].result = Outcome(alone)
              /\ frames[c].errors = alone.errors
    /\ \A x \in completed, y \in completed :
          (x[1] = y[1] /\ x[2] = y[2]) => x[3] = y[3]

\* a second call of a caller has returned two lines while another caller
\* is in the middle of its walk
C14_Witness ==
    \E c \in DOMAIN frames, d \in DOMAIN frames :
        /\ c # d
        /\ frames[c].pc = "returned"
        /\ frames[c].runs = 2
        /\ Len(frames[c].errors) = 2
        /\ frames[d].pc = "walk"
        /\ frames[d].next = 2
        /\ Len(frames[d].errors) = 1

\* the files named <file>.json in the scope directory or below it, and the
\* keys of the reference
Candidates == rglob(RESOURCES \o <<country>>, "users.json")
LookedUp == lpc \in {"read", "descend", "returned"} \/ lexc = "AttributeError"
KeysOf(reference) == Tail(split(reference, "."))

\* C15: the lookup raises whenever the scope holds no candidate or more
\* than one, and yields a path only when it holds exactly one.
C15_LookupNeedsOneCandidate ==
    lpc \notin {"call", "lookup", "off"} =>
        /\ Cardinality(Candidates) # 1 => (lpc = "raised" /\ lexc = "Exception")
        /\ LookedUp => Cardinality(Candidates) = 1

\* C16: once the document is found, the call returns, without raising, the
\* value that the keys of the reference reach from the root of the document,
\* and the empty mapping when a key is missing or the value above it is not
\* a mapping.
RECURSIVE Reach(_, _)
Reach(v, keys) ==
    IF keys = <<>> THEN v
    ELSE IF IsDict(v) /\ Text(Head(keys)) \in DictKeys(v.o)
    THEN Reach(DictGet(v.o, Text(Head(keys))), Tail(keys))
    ELSE JObj(<<>>)
C16_ResolveDefaultsToEmpty ==
    /\ lexc # "AttributeError"
    /\ lpc = "returned" => expected_json = Reach(files[file_path], KeysOf(rsp_content))

\* C17: the file that is read lies in the directory of the given scope.
C17_ReadsWithinScope ==
    LookedUp =>
        /\ Len(file_path) > Len(RESOURCES) + 1
        /\ SubSeq(file_path, 1, Len(RESOURCES) + 1) = RESOURCES \o <<country>>

\* the bearer value of a token, and whether a token counts as one
Bearer(token) == "Bearer " \o token[1]
SentAuthorization ==
    IF "authorization" \in DOMAIN sent.headers THEN Some(sent.headers["authorization"])
    ELSE None

C19_OneClientPerName ==
    /\ \A name \in DOMAIN made : Len(made[name]) <= 1
    /\ returned.k = "create_client" =>
            /\ made[returned.name] # <<>>
            /\ returned.value = Some(Head(made[returned.name]))
    /\ returned.k = "get_client" =>
            returned.value = IF made[returned.name] = <<>> THEN None
                             ELSE Some(Head(made[returned.name]))
    /\ returned.k = "close_all" =>
            /\ \A c \in 1..constructed : c \in closed
            /\ DOMAIN _clients = {}
C19_Witness ==
    /\ returned.k = "create_client"
    /\ closed # {}
    /\ constructed = MaxClients
    /\ returned.value # Some(constructed)
    /\ returned.value[1] \notin closed

\* C20: with a delay d > 0 in force at a request, the request passes the
\* limiter at least d after the request before it did; with d = 0 it
\* passes at the moment it is called.
C20_RateLimitGap ==
    gate.k = "pass" =>
        /\ (gate.delay > 0 /\ gate.previous # 0) =>
                last_request_time - gate.previous >= gate.delay
        /\ gate.delay = 0 => last_request_time = gate.called
C20_Witness ==
    /\ gate.k = "pass"
    /\ gate.delay = MaxDelay
    /\ gate.previous # 0
    /\ gate.called - gate.previous = 1
    /\ last_request_time - gate.previous = MaxDelay

\* a node whose schema is an object or an array and whose observed value
\* has another shape, and the one line such a node yields
StructuralMismatch(observed, node) ==
    \/ IsDict(node) /\ ~IsDict(observed)
    \/ IsList(node) /\ ~IsList(observed)
    \/ /\ IsList(node) /\ Len(node.a) # 1
       /\ IsList(observed) /\ Len(observed.a) # Len(node.a)
MismatchLine(observed, node, field_path) ==
    IF IsDict(node) THEN ExpectedKindMsg(field_path, "object", observed)
    ELSE IF ~IsList(observed) THEN ExpectedKindMsg(field_path, "array", observed)
    ELSE "Validation Error at '" \o field_path \o "': expected array of length "
            \o ToString(Len(node.a)) \o ", got " \o ToString(Len(observed.a)) \o "."
\* the lines of one child: the mismatch line alone, or those of its walk
ChildLines(observed, node, field_path) ==
    IF StructuralMismatch(observed, node) THEN <<MismatchLine(observed, node, field_path)>>
    ELSE Walk(observed, node, field_path).errors
ChildRaises(observed, node, field_path) ==
    /\ ~StructuralMismatch(observed, node)
    /\ Walk(observed, node, field_path).raised # "none"
\* the lines of the members of an object from member i on, and of the
\* elements of an array from element i on, up to a child that raises
RECURSIVE SiblingLines(_, _, _)
SiblingLines(observed, members, i) ==
    IF i > Len(members) THEN <<>>
    ELSE LET child == DictGet(observed.o, members[i].key)
             path == "." \o members[i].key
         IN ChildLines(child, members[i].val, path)
                \o (IF ChildRaises(child, members[i].val, path) THEN <<>>
                    ELSE SiblingLines(observed, members, i + 1))
RECURSIVE ElementLines(_, _, _)
ElementLines(items, nodes, i) ==
    IF i > Len(items) THEN <<>>
    ELSE LET node == IF Len(nodes) = 1 THEN nodes[1] ELSE nodes[i]
             path == "[" \o ToString(i - 1) \o "]"
         IN ChildLines(items[i], node, path)
                \o (IF ChildRaises(items[i], node, path) THEN <<>>
                    ELSE ElementLines(items, nodes, i + 1))

\* C21: a structural mismatch (object schema against a value that is no
\* object, array schema against a value that is no array, positional array
\* against an array of another length) yields exactly one line for its node
\* and none for what lies below it, and the members or elements next to the
\* node are validated all the same.
C21_MismatchEndsBranch ==
    /\ (Done /\ StructuralMismatch(response_data, schema)) =>
            /\ pc = "returned"
            /\ errors = <<MismatchLine(response_data, schema, "")>>
    /\ (Done /\ IsDict(schema) /\ IsDict(response_data)) =>
            errors = SiblingLines(response_data, schema.o, 1)
    /\ (Done /\ IsList(schema) /\ IsList(response_data)
             /\ ~StructuralMismatch(response_data, schema)
             /\ (Len(schema.a) = 1 => IsDict(schema.a[1]) \/ IsList(schema.a[1]))) =>
            errors = ElementLines(response_data.a, schema.a, 1)
C21_Witness ==
    /\ pc = "returned"
    /\ schema = JObj(<<Member("a", IdSchema), Member("b", JStr(STRING_FIELD))>>)
    /\ response_data = JObj(<<Member("a", JNum(1)), Member("b", JNum(1))>>)
    /\ Len(errors) = 2
    /\ errors[1] = "Validation Error at '.a': expected object, got int."

\* the lines of the members of a top-level object from member i on, each
\* member walked under the path that is its key
RECURSIVE NamedLines(_, _, _)
NamedLines(observed, members, i) ==
    IF i > Len(members) THEN <<>>
    ELSE Walk(DictGet(observed.o, members[i].key), members[i].val, members[i].key).errors
            \o NamedLines(observed, members, i + 1)

\* C22: every line names the path of its node, the parent's path extended
\* by .key for a member and by [index] for an element, a top-level member a
\* having the path a: a wrong member c of element 2 of a.b is reported at
\* a.b[2].c.
C22_PathsNameNodes ==
    (pc = "returned" /\ IsDict(schema) /\ IsDict(response_data)) =>
        errors = NamedLines(response_data, schema.o, 1)

\* the calls a list of hooks makes on a response, in the order of the list
HookCalls(hooks, status) == [i \in DOMAIN hooks |-> [hook |-> hooks[i], status |-> status]]
Ended == reply.k \in {"returned", "raised"}
\* no response of status 400 or above reaches context.response or a status
\* step
NoFailedResponseStored ==
    /\ context_response # None => context_response[1].status_code < 400
    /\ checked # None => checked[1].status_code < 400

\* C23 as stated: request returns only a status below 400; on a status of
\* 400 or above it raises after every registered response hook has run, in
\* registration order, on that response; such a response is never stored in
\* context.response nor seen by a status step.
C23_RaisesAfterHooks ==
    /\ (Ended /\ reply.k = "returned") => reply.status < 400
    /\ (Ended /\ reply.status >= 400) =>
            /\ reply.k = "raised"
            /\ hook_log = HookCalls(reply.hooks, reply.status)
    /\ NoFailedResponseStored

\* C23 amended: request returns only a status below 400 and raises on a
\* status of 400 or above; the response hooks have run first, in
\* registration order, unless the status is one the adapter retries (429,
\* 500, 502, 503, 504): then the adapter raises RetryError once the retries
\* are used up and no hook sees a response.  Such a response is never stored
\* in context.response nor seen by a status step.
C23_RaisesHooksUnlessRetried ==
    /\ (Ended /\ reply.k = "returned") => reply.status < 400
    /\ (Ended /\ reply.status >= 400) =>
            /\ reply.k = "raised"
            /\ IF reply.status \in {429, 500, 502, 503, 504}
               THEN reply.exc = "RetryError" /\ hook_log = <<>>
               ELSE /\ reply.exc = "HTTPError"
                    /\ hook_log = HookCalls(reply.hooks, reply.status)
    /\ NoFailedResponseStored
C23_Witness ==
    /\ Ended
    /\ reply.status = 404
    /\ reply.k = "raised"
    /\ hook_log = <<[hook |-> "h2", status |-> 404], [hook |-> "h1", status |-> 404]>>
    /\ scenario_status = "failed"
    /\ context_response # None
    /\ context_response[1].status_code = 200

\* C24: a lookup gives the scenario store's value, else the feature
\* store's, else the global store's, else the key itself; a set step writes
\* the store of its scope and no other; the scenario store is empty at the
\* start of each scenario and the feature store at the start of each
\* feature, and the global store is never emptied.  So each store holds what
\* was set in its scope since the start of the scenario, of the feature, of
\* the run.
C24_ScopedVariables ==
    /\ looked # None => looked[1].value = looked[1].should
    /\ store = expected.global
    /\ feature_store = expected.feature
    /\ scenario_store = expected.scenario
C24_Witness ==
    /\ feature_no = MaxFeatures
    /\ scenario_status = "running"
    /\ TokenKey \in DOMAIN store
    /\ TokenKey \notin DOMAIN feature_store
    /\ scenario_store = [key \in {IdKey} |-> JStr(<<"1">>)]
    /\ looked # None
    /\ looked[1].key = TokenKey
    /\ looked[1].value = JStr(<<"1">>)

====
